---- MODULE Spec2Model ----
(***************************************************************************)
(* A model of the C++ fragments of gazelle_cc's examples:                  *)
(*   example/workspace/mylib/mylib.cc      mylib::add, mylib::greet        *)
(*   example/workspace/mylib/mylib_test.cc the callers of add and greet    *)
(*   example/bzlmod/proto/mock.h           printMessage                    *)
(*                                                                         *)
(* Strings are sequences of one-character strings.  int is modelled with   *)
(* IntBits bits; every pair of IntBits-bit values is an input of add.      *)
(***************************************************************************)
EXTENDS Integers, Sequences, FiniteSets, TLC

(* ------------------------------ bounds -------------------------------- *)

\* Width of int in bits (the range is -2^(IntBits-1) .. 2^(IntBits-1)-1).
IntBits == 4

\* Longest name drawn over Chars (the two names of the unit test are added).
MaxNameLen == 2

\* Number of threads calling the library concurrently.
NumThreads == 2

\* Latest time, in seconds, the clock read by printMessage can show.
MaxTime == 3

(* --------------------------- int arithmetic --------------------------- *)

RECURSIVE Pow2(_)
Pow2(n) == IF n = 0 THEN 1 ELSE 2 * Pow2(n - 1)

IntMin == -Pow2(IntBits - 1)
IntMax == Pow2(IntBits - 1) - 1
IntT == IntMin..IntMax

InRange(v) == IntMin <= v /\ v <= IntMax

(* ------------------------------ outcomes ------------------------------ *)

\* What a call ends with: an int, a string, an exception, or the process
\* being killed by an overflow trap.
NoRes == [kind |-> "none", ival |-> 0, sval |-> <<>>]
IntRes(v) == [kind |-> "int", ival |-> v, sval |-> <<>>]
StrRes(s) == [kind |-> "str", ival |-> 0, sval |-> s]
Throw == [kind |-> "throw", ival |-> 0, sval |-> <<>>]
Trap == [kind |-> "trap", ival |-> 0, sval |-> <<>>]

(* ------------------------------ mylib::add ---------------------------- *)

AddExpr_Minus(x, y) == x - y

\* The expression a + b of mylib::add, on operands whose sum is an int.
AddExpr(x, y) == x + y

\* int add(int a, int b) { return a + b; }
\* A sum that is not representable is signed overflow, which is undefined
\* behaviour: the build may wrap (-fwrapv, plain code generation), trap
\* (-ftrapv, a sanitizer), or, with the optimizer assuming no overflow in
\* an inlined call (a sum kept in a wider register, a comparison folded
\* away), yield a value that is not the wrapped one.  Each call chooses
\* anew: the language guarantees nothing from one call to the next.
AddOutcomes(x, y) ==
  IF InRange(x + y)
    THEN {IntRes(AddExpr(x, y))}
    ELSE {Trap} \cup {IntRes(v) : v \in IntT}

(* ----------------------------- fmt::format ---------------------------- *)

\* The format string of greet, "Hello, {}!".
HelloFmt == <<"H", "e", "l", "l", "o", ",", " ", "{", "}", "!">>

\* The scanner of fmt::format: the position in the format string, the index
\* of the next automatically numbered argument, the output written so far,
\* and whether a format_error was raised.
FmtInit == [pos |-> 1, idx |-> 1, out |-> <<>>, err |-> FALSE]

FmtDone(fmt, st) == st.err \/ st.pos > Len(fmt)

\* One step of the scanner: "{{" and "}}" are escaped braces, "{}" is
\* replaced by the next argument, written as it is (a string argument with an
\* empty format specification is copied byte by byte and never scanned), a
\* lone brace is a format_error, anything else is copied.
FmtStep(fmt, args, st) ==
  LET c == fmt[st.pos]
      n == IF st.pos < Len(fmt) THEN fmt[st.pos + 1] ELSE ""
  IN CASE c = "{" /\ n = "{" ->
            [st EXCEPT !.pos = @ + 2, !.out = Append(@, "{")]
       [] c = "{" /\ n = "}" /\ st.idx <= Len(args) ->
            [st EXCEPT !.pos = @ + 2, !.idx = @ + 1, !.out = @ \o args[st.idx]]
       [] c = "{" /\ ~(n = "{" \/ (n = "}" /\ st.idx <= Len(args))) ->
            [st EXCEPT !.err = TRUE]
       [] c = "}" /\ n = "}" ->
            [st EXCEPT !.pos = @ + 2, !.out = Append(@, "}")]
       [] c = "}" /\ n # "}" ->
            [st EXCEPT !.err = TRUE]
       [] OTHER ->
            [st EXCEPT !.pos = @ + 1, !.out = Append(@, c)]

RECURSIVE FmtRun(_, _, _)
FmtRun(fmt, args, st) ==
  IF FmtDone(fmt, st) THEN st ELSE FmtRun(fmt, args, FmtStep(fmt, args, st))

\* What fmt::format returns, or throws, once the scanner has stopped.
FmtResult(st) == IF st.err THEN Throw ELSE StrRes(st.out)

(* ----------------------------- mylib::greet --------------------------- *)

GreetArgs_AsFormat(name) ==
  [fmt |-> <<"H", "e", "l", "l", "o", ",", " ">> \o name \o <<"!">>,
   args |-> <<>>]

GreetArgs_NoControl(name) ==
  [fmt |-> HelloFmt,
   args |-> <<SelectSeq(name, LAMBDA c : c # "\n")>>]

\* return fmt::format("Hello, {}!", name): the format string and arguments
\* greet hands to fmt::format.
GreetArgs(name) == [fmt |-> HelloFmt, args |-> <<name>>]

Greet(name) ==
  LET g == GreetArgs(name)
  IN FmtResult(FmtRun(g.fmt, g.args, FmtInit))

(* ------------------------------- inputs ------------------------------- *)

\* Characters of the names: letters of both cases, a blank, the two braces
\* of the format syntax and a control character.
Chars == {"A", "b", " ", "{", "}", "\n"}

Alice == <<"A", "l", "i", "c", "e">>
Bob == <<"B", "o", "b">>

Names ==
  UNION {[1..n -> Chars] : n \in 0..MaxNameLen} \cup {Alice, Bob}

\* The inputs of the callers that compare two calls: the ends of the int
\* range and the values next to zero, and names with and without braces.
EdgeInts == {IntMin, -1, 0, 1, IntMax}
EdgeNames == {<<>>, <<"{">>, <<"b", "}">>}

(* ------------------------------- state -------------------------------- *)

Threads == 1..NumThreads

\* The thread of the sequential callers (the unit tests run on one thread).
MainThread == 1

VARIABLES
  \* mylib and its callers
  pc,      \* per thread: "idle", "add", "greet", "ret" (the call returned or
           \* threw) or "trap" (the process was killed inside the call)
  op,      \* per thread: the function called, "none", "add" or "greet"
  a, b,    \* per thread: the parameters of add, by value
  name,    \* per thread: the caller's string that greet's name refers to
  scan,    \* per thread: the scanner of the fmt::format call in progress
  res,     \* per thread: the outcome of the call
  first,   \* the first call a sequential caller completed, with its outcome
  \* printMessage
  ppc,          \* the statement printMessage is at
  foo,          \* the message Foo
  status,       \* the status MessageToJsonString returned
  json_output,  \* the string MessageToJsonString writes to
  cout, cerr,   \* what was written to std::cout and std::cerr, in order
  ret,          \* the value printMessage returned (read it when ppc = "done")
  shutdown,     \* whether ShutdownProtobufLibrary was called
  checks        \* how many times status.ok() was evaluated

libvars == <<pc, op, a, b, name, scan, res, first>>

printvars == <<ppc, foo, status, json_output, cout, cerr, ret, shutdown, checks>>

vars == <<libvars, printvars>>

NoCall == [op |-> "none", a |-> 0, b |-> 0, name |-> <<>>, res |-> NoRes]

\* The call thread t is in, with its outcome.
CallOf(t) ==
  [op |-> op[t], a |-> a[t], b |-> b[t], name |-> name[t], res |-> res[t]]

LibInit ==
  /\ pc = [t \in Threads |-> "idle"]
  /\ op = [t \in Threads |-> "none"]
  /\ a = [t \in Threads |-> 0]
  /\ b = [t \in Threads |-> 0]
  /\ name = [t \in Threads |-> <<>>]
  /\ scan = [t \in Threads |-> FmtInit]
  /\ res = [t \in Threads |-> NoRes]
  /\ first = NoCall

\* A trap kills the process, and with it every thread.
Alive == \A t \in Threads : pc[t] # "trap"

(* ------------------------------ the calls ----------------------------- *)

\* A caller evaluates mylib::add(x, y): the operands are copied into the
\* parameters a and b.
CallAdd(t, x, y) ==
  /\ Alive
  /\ pc[t] = "idle"
  /\ pc' = [pc EXCEPT ![t] = "add"]
  /\ op' = [op EXCEPT ![t] = "add"]
  /\ a' = [a EXCEPT ![t] = x]
  /\ b' = [b EXCEPT ![t] = y]
  /\ UNCHANGED <<name, scan, res, first, printvars>>

\* The body of add: return a + b.
Add(t) ==
  /\ Alive
  /\ pc[t] = "add"
  /\ \E o \in AddOutcomes(a[t], b[t]) :
       /\ res' = [res EXCEPT ![t] = o]
       /\ pc' = [pc EXCEPT ![t] = IF o.kind = "trap" THEN "trap" ELSE "ret"]
  /\ UNCHANGED <<op, a, b, name, scan, first, printvars>>

\* A caller evaluates mylib::greet(n): name is bound to the caller's string.
CallGreet(t, n) ==
  /\ Alive
  /\ pc[t] = "idle"
  /\ pc' = [pc EXCEPT ![t] = "greet"]
  /\ op' = [op EXCEPT ![t] = "greet"]
  /\ name' = [name EXCEPT ![t] = n]
  /\ scan' = [scan EXCEPT ![t] = FmtInit]
  /\ UNCHANGED <<a, b, res, first, printvars>>

\* The body of greet, run without interruption.
GreetRun(t) ==
  /\ Alive
  /\ pc[t] = "greet"
  /\ res' = [res EXCEPT ![t] = Greet(name[t])]
  /\ pc' = [pc EXCEPT ![t] = "ret"]
  /\ UNCHANGED <<op, a, b, name, scan, first, printvars>>

\* The body of greet, one step of fmt::format's scanner at a time: the
\* scanner writes to a buffer of its own call.
GreetStep(t) ==
  /\ Alive
  /\ pc[t] = "greet"
  /\ ~FmtDone(GreetArgs(name[t]).fmt, scan[t])
  /\ scan' = [scan EXCEPT ![t] =
                FmtStep(GreetArgs(name[t]).fmt, GreetArgs(name[t]).args, @)]
  /\ UNCHANGED <<pc, op, a, b, name, res, first, printvars>>

\* fmt::format returns the buffer as a new string (or throws), and greet
\* returns it.
GreetFinish(t) ==
  /\ Alive
  /\ pc[t] = "greet"
  /\ FmtDone(GreetArgs(name[t]).fmt, scan[t])
  /\ res' = [res EXCEPT ![t] = FmtResult(scan[t])]
  /\ pc' = [pc EXCEPT ![t] = "ret"]
  /\ scan' = [scan EXCEPT ![t] = FmtInit]
  /\ UNCHANGED <<op, a, b, name, first, printvars>>

\* The caller has used the result: the call's frame and temporaries are gone.
Forget(t) ==
  /\ Alive
  /\ pc[t] = "ret"
  /\ pc' = [pc EXCEPT ![t] = "idle"]
  /\ op' = [op EXCEPT ![t] = "none"]
  /\ a' = [a EXCEPT ![t] = 0]
  /\ b' = [b EXCEPT ![t] = 0]
  /\ name' = [name EXCEPT ![t] = <<>>]
  /\ res' = [res EXCEPT ![t] = NoRes]
  /\ UNCHANGED <<scan, printvars>>

Return(t) == Forget(t) /\ UNCHANGED first

\* A sequential caller keeps the first call it completed, to compare later
\* calls with it.
ReturnKeep(t) ==
  /\ Forget(t)
  /\ first' = IF first = NoCall THEN CallOf(t) ELSE first

(* ---------------------------- printMessage ---------------------------- *)

NoFoo == [name |-> "", last_updated |-> 0, type |-> ""]

\* Statuses of MessageToJsonString: OK, or an error with its message.
OkStatus == [ok |-> TRUE, message |-> ""]
ErrStatuses ==
  {[ok |-> FALSE, message |-> m] : m \in {"invalid argument", "internal"}}

\* A piece written to a stream: a piece of text or a JSON document.
Text(s) == [text |-> s, json |-> <<>>]
Json(j) == [text |-> "", json |-> j]

Field(k, s, i) == [key |-> k, sval |-> s, ival |-> i]

\* The JSON document of a Foo, field by field.
ToJson(f) ==
  <<Field("name", f.name, 0),
    Field("lastUpdated", "", f.last_updated),
    Field("type", f.type, 0)>>

PrintInit ==
  /\ ppc = "verify"
  /\ foo = NoFoo
  /\ status = OkStatus
  /\ json_output = <<>>
  /\ cout = <<>>
  /\ cerr = <<>>
  /\ ret = 0
  /\ shutdown = FALSE
  /\ checks = 0

\* GOOGLE_PROTOBUF_VERIFY_VERSION: continues when the headers and the linked
\* library agree, and aborts the process when they do not.
VerifyVersion ==
  /\ ppc = "verify"
  /\ \E compatible \in BOOLEAN :
       ppc' = IF compatible THEN "build" ELSE "aborted"
  /\ UNCHANGED <<foo, status, json_output, cout, cerr, ret, shutdown, checks, libvars>>

\* Foo foo; set_name, last_updated = GetCurrentTime(), type->set_name.
BuildFoo ==
  /\ ppc = "build"
  /\ \E now \in 0..MaxTime :
       foo' = [name |-> "MyFooObject", last_updated |-> now,
               type |-> "example.Type"]
  /\ ppc' = "serialize"
  /\ UNCHANGED <<status, json_output, cout, cerr, ret, shutdown, checks, libvars>>

\* status = MessageToJsonString(foo, &json_output, opts): with an OK status
\* json_output holds the document; with an error it holds what had been
\* written when the error was met.
Serialize ==
  /\ ppc = "serialize"
  /\ \/ /\ status' = OkStatus
        /\ json_output' = ToJson(foo)
     \/ /\ status' \in ErrStatuses
        /\ \E k \in 0..(Len(ToJson(foo)) - 1) :
             json_output' = SubSeq(ToJson(foo), 1, k)
  /\ ppc' = "check"
  /\ UNCHANGED <<foo, cout, cerr, ret, shutdown, checks, libvars>>

CheckStatus_Inverted ==
  /\ ppc = "check"
  /\ checks' = checks + 1
  /\ ppc' = IF status.ok THEN "fail_write" ELSE "ok_write"
  /\ UNCHANGED <<foo, status, json_output, cout, cerr, ret, shutdown, libvars>>

\* if (!status.ok())
CheckStatus ==
  /\ ppc = "check"
  /\ checks' = checks + 1
  /\ ppc' = IF ~status.ok THEN "fail_write" ELSE "ok_write"
  /\ UNCHANGED <<foo, status, json_output, cout, cerr, ret, shutdown, libvars>>

\* std::cerr << "JSON serialization failed: " << status.message() << "\n";
WriteError ==
  /\ ppc = "fail_write"
  /\ cerr' = cerr \o <<Text("JSON serialization failed: "),
                       Text(status.message), Text("\n")>>
  /\ ppc' = "fail_ret"
  /\ UNCHANGED <<foo, status, json_output, cout, ret, shutdown, checks, libvars>>

ReturnFailure_Shutdown ==
  /\ ppc = "fail_ret"
  /\ shutdown' = TRUE
  /\ ret' = 1
  /\ ppc' = "done"
  /\ UNCHANGED <<foo, status, json_output, cout, cerr, checks, libvars>>

\* return 1;
ReturnFailure ==
  /\ ppc = "fail_ret"
  /\ ret' = 1
  /\ ppc' = "done"
  /\ UNCHANGED <<foo, status, json_output, cout, cerr, shutdown, checks, libvars>>

\* std::cout << "Foo as JSON:\n" << json_output << "\n";
WriteJson ==
  /\ ppc = "ok_write"
  /\ cout' = cout \o <<Text("Foo as JSON:\n"), Json(json_output), Text("\n")>>
  /\ ppc' = "shutdown"
  /\ UNCHANGED <<foo, status, json_output, cerr, ret, shutdown, checks, libvars>>

\* google::protobuf::ShutdownProtobufLibrary();
Shutdown ==
  /\ ppc = "shutdown"
  /\ shutdown' = TRUE
  /\ ppc' = "ok_ret"
  /\ UNCHANGED <<foo, status, json_output, cout, cerr, ret, checks, libvars>>

\* return 0;
ReturnSuccess ==
  /\ ppc = "ok_ret"
  /\ ret' = 0
  /\ ppc' = "done"
  /\ UNCHANGED <<foo, status, json_output, cout, cerr, shutdown, checks, libvars>>

(* --------------------------- specifications --------------------------- *)

Init == LibInit /\ PrintInit

\* The library called from one thread, one call at a time, with every pair
\* of ints and every name.
Next ==
  \/ \E x \in IntT, y \in IntT : CallAdd(MainThread, x, y)
  \/ Add(MainThread)
  \/ \E n \in Names : CallGreet(MainThread, n)
  \/ GreetRun(MainThread)
  \/ Return(MainThread)

Spec == Init /\ [][Next]_vars

\* A sequential caller that makes call after call and compares each with the
\* first one it made.
NextSeq ==
  \/ \E x \in EdgeInts, y \in EdgeInts : CallAdd(MainThread, x, y)
  \/ Add(MainThread)
  \/ \E n \in EdgeNames : CallGreet(MainThread, n)
  \/ GreetRun(MainThread)
  \/ ReturnKeep(MainThread)

SpecSeq == Init /\ [][NextSeq]_vars

\* Threads that call the library with no coordination; fmt::format's steps
\* interleave.
NextConc ==
  \/ \E t \in Threads, x \in EdgeInts, y \in EdgeInts : CallAdd(t, x, y)
  \/ \E t \in Threads : Add(t)
  \/ \E t \in Threads, n \in EdgeNames : CallGreet(t, n)
  \/ \E t \in Threads : GreetStep(t)
  \/ \E t \in Threads : GreetFinish(t)
  \/ \E t \in Threads : Return(t)

SpecConc == Init /\ [][NextConc]_vars

\* One run of printMessage.
NextPrint ==
  \/ VerifyVersion
  \/ BuildFoo
  \/ Serialize
  \/ CheckStatus
  \/ WriteError
  \/ ReturnFailure
  \/ WriteJson
  \/ Shutdown
  \/ ReturnSuccess

SpecPrint == Init /\ [][NextPrint]_vars

(* ------------------------------- claims ------------------------------- *)

Completed(t) == pc[t] \in {"ret", "trap"}

\* Two's-complement wraparound: v reduced modulo 2^IntBits and read as a signed IntBits-bit value.
Wrap(v) ==
  LET m == v % Pow2(IntBits)
  IN IF m > IntMax THEN m - Pow2(IntBits) ELSE m

\* "Hello, " and "!" as greet's result is expected to hold them.
HelloPrefix == <<"H", "e", "l", "l", "o", ",", " ">>
Bang == <<"!">>

\* C1: whenever greet(s) has returned, for any s (empty, with control
\* characters, with '{' or '}'), its result is the string "Hello, " followed
\* by s unchanged followed by "!"; so greet("Alice") is "Hello, Alice!",
\* greet("Bob") is "Hello, Bob!" and greet("") is "Hello, !".
C1_GreetIsConcatenation ==
  \A t \in Threads :
    (pc[t] = "ret" /\ op[t] = "greet") =>
      /\ res[t] = StrRes(HelloPrefix \o name[t] \o Bang)
      /\ name[t] = Alice =>
           res[t].sval = <<"H", "e", "l", "l", "o", ",", " ",
                           "A", "l", "i", "c", "e", "!">>
      /\ name[t] = Bob =>
           res[t].sval = <<"H", "e", "l", "l", "o", ",", " ",
                           "B", "o", "b", "!">>
      /\ name[t] = <<>> =>
           res[t].sval = <<"H", "e", "l", "l", "o", ",", " ", "!">>

\* greet has returned for a name made of the two braces.
C1_Witness ==
  /\ pc[MainThread] = "ret"
  /\ op[MainThread] = "greet"
  /\ name[MainThread] = <<"{", "}">>
  /\ res[MainThread].kind = "str"

\* C2: whenever add(a, b) has ended for operands whose sum is not
\* representable, it returned the sum wrapped modulo 2^IntBits, and no
\* overflow error was raised.
C2_AddWrapsOnOverflow ==
  \A t \in Threads :
    (Completed(t) /\ op[t] = "add" /\ ~InRange(a[t] + b[t])) =>
      res[t] = IntRes(Wrap(a[t] + b[t]))

\* C3: whenever add(a, b) has ended for operands whose sum is representable,
\* it returned that sum; add(1, 2) is 3, add(-5, 5) is 0, add(0, 0) is 0.
C3_AddIsSum ==
  \A t \in Threads :
    (Completed(t) /\ op[t] = "add" /\ InRange(a[t] + b[t])) =>
      /\ res[t] = IntRes(a[t] + b[t])
      /\ (a[t] = 1 /\ b[t] = 2) => res[t] = IntRes(3)
      /\ (a[t] = -5 /\ b[t] = 5) => res[t] = IntRes(0)
      /\ (a[t] = 0 /\ b[t] = 0) => res[t] = IntRes(0)

\* add(-5, 5) has returned 0.
C3_Witness ==
  /\ pc[MainThread] = "ret"
  /\ op[MainThread] = "add"
  /\ a[MainThread] = -5
  /\ b[MainThread] = 5
  /\ res[MainThread] = IntRes(0)

\* C4: when a caller has completed add(a, b) and then add(b, a), for any
\* ints a and b, overflowing sums included, the two results are equal.
C4_AddCommutes ==
  (/\ Completed(MainThread)
   /\ op[MainThread] = "add"
   /\ first.op = "add"
   /\ first.a = b[MainThread]
   /\ first.b = a[MainThread]) =>
    res[MainThread] = first.res

\* C5: every call of add or greet that has ended, ended with a result value:
\* never with an exception and never with the process killed.
C5_CallsNeverFail ==
  \A t \in Threads :
    Completed(t) =>
      \/ op[t] = "add" /\ res[t].kind = "int"
      \/ op[t] = "greet" /\ res[t].kind = "str"

\* C6: after any earlier calls, a call with the arguments of the caller's
\* first call has the result the first call had, and the arguments are what
\* they were when the call was made.
C6_CallsDeterministic ==
  (/\ Completed(MainThread)
   /\ first.op = op[MainThread]
   /\ first.a = a[MainThread]
   /\ first.b = b[MainThread]
   /\ first.name = name[MainThread]) =>
    res[MainThread] = first.res

\* C7: when two threads have each ended a call of the same function with the
\* same arguments, under any interleaving, both have the one result the call
\* has when run alone.
C7_ConcurrentAsAlone ==
  \A t, u \in Threads :
    (/\ t # u
     /\ Completed(t)
     /\ Completed(u)
     /\ op[t] = op[u]
     /\ a[t] = a[u]
     /\ b[t] = b[u]
     /\ name[t] = name[u]) =>
      res[t] = res[u]

\* C8: printMessage evaluates status.ok() once; when the status is not OK it
\* ends with the failure message on std::cerr, nothing on std::cout and the
\* value 1; when it is OK it ends with the header, the JSON text and a
\* newline on std::cout and the value 0; it returns no other value.
C8_PrintMessageOutcome ==
  /\ checks <= 1
  /\ ppc \in {"fail_write", "fail_ret", "ok_write", "shutdown", "ok_ret", "done"}
       => checks = 1
  /\ ppc \in {"fail_write", "fail_ret"} => (~status.ok /\ cout = <<>>)
  /\ (ppc = "done" /\ ~status.ok) =>
       /\ cerr = <<Text("JSON serialization failed: "),
                   Text(status.message), Text("\n")>>
       /\ cout = <<>>
       /\ ret = 1
  /\ (ppc = "done" /\ status.ok) =>
       /\ cout = <<Text("Foo as JSON:\n"), Json(ToJson(foo)), Text("\n")>>
       /\ cerr = <<>>
       /\ ret = 0
  /\ ppc = "done" => ret \in {0, 1}

\* printMessage has returned 1 after a failed serialization that had already
\* written a part of the document to json_output.
C8_Witness ==
  /\ ppc = "done"
  /\ ~status.ok
  /\ json_output # <<>>
  /\ ret = 1

\* C9: ShutdownProtobufLibrary is called only with an OK status and after the
\* JSON text was written to std::cout; on the failure path it is never
\* called; and when printMessage has returned, it returned 0 exactly when
\* the shutdown was performed.
C9_ShutdownOnlyOnSuccess ==
  /\ shutdown =>
       /\ status.ok
       /\ Len(cout) = 3
       /\ cout[2] = Json(json_output)
  /\ ppc \in {"fail_write", "fail_ret"} => ~shutdown
  /\ ppc = "done" => (ret = 0 <=> shutdown)

\* printMessage has returned 0 with the shutdown performed.
C9_Witness ==
  /\ ppc = "done"
  /\ shutdown
  /\ ret = 0

\* C10: whenever greet(s) has returned, the result is len(s) + 8 characters
\* long, and without its first 7 characters and its last one it is s; no
\* other name has the same greeting.
C10_GreetKeepsName ==
  \A t \in Threads :
    (pc[t] = "ret" /\ op[t] = "greet") =>
      /\ res[t].kind = "str"
      /\ Len(res[t].sval) = Len(name[t]) + 8
      /\ SubSeq(res[t].sval, 1, 7) = HelloPrefix
      /\ res[t].sval[Len(res[t].sval)] = "!"
      /\ SubSeq(res[t].sval, 8, Len(res[t].sval) - 1) = name[t]
      /\ \A n \in Names : Greet(n) = res[t] => n = name[t]

\* greet has returned for a name that holds a control character.
C10_Witness ==
  /\ pc[MainThread] = "ret"
  /\ op[MainThread] = "greet"
  /\ name[MainThread] = <<"\n", "A">>
  /\ Len(res[MainThread].sval) = 10

====
